---- MODULE Spec2Model ----
(***************************************************************************)
(* The Yahoo Finance agent tool (CustomAgentTool in tool.py) as a state    *)
(* machine: the configuration (set_config), the request-result cache kept  *)
(* by invoke (cache, cache_timestamps, cache_expiry), the canonical cache  *)
(* key (json.dumps(args, sort_keys=True)) and the dispatch of a request to *)
(* the upstream fetch functions.                                           *)
(*                                                                         *)
(* A request (the args dict) is a sequence of <<name, value>> pairs with   *)
(* distinct names, in the dict's insertion order.  A value is a record     *)
(* [t, s, n, l]: a string, an integer, a list of strings or None.          *)
(* The wall clock (time.time()) is the variable now; it never runs back.   *)
(***************************************************************************)
EXTENDS Integers, Sequences, FiniteSets, TLC

VARIABLES
    configured,        \* set_config has run on the instance
    self_config,       \* self.config
    logger,            \* the shared logger (LazyLogger._logger) and its level
    cache,             \* self.cache: cache key -> result
    cache_timestamps,  \* self.cache_timestamps: cache key -> time of storing
    cache_expiry,      \* self.cache_expiry, in seconds
    now,               \* the wall clock read by time.time()
    ret,               \* what the last operation returned, and how
    window,            \* history: per key, the freshness window opened by the
                       \* last successful fetch and the fetches made inside it
    trace,             \* history: the returns of the logged invokes, in order
    k_req,             \* key specification: the pair of requests drawn
    k_keys,            \* key specification: their cache keys, once computed
    a_req,             \* dispatch specification: the request last served
    a_up,              \* dispatch specification: what the upstream answered it
    threads            \* concurrent specification: the invoke of each thread

vars == <<configured, self_config, logger, cache, cache_timestamps,
          cache_expiry, now, ret, window, trace, k_req, k_keys, a_req, a_up,
          threads>>

(***************************************************************************)
(* Bounds of the model.                                                    *)
(***************************************************************************)
MaxTime == 301
MaxData == 2
MaxTrace == 3
MaxFetches == 2

(***************************************************************************)
(* Values of a request and of a configuration.                             *)
(***************************************************************************)
StrVal(s) == [t |-> "str", s |-> s, n |-> 0, l |-> <<>>]
IntVal(n) == [t |-> "int", s |-> "", n |-> n, l |-> <<>>]
ListVal(l) == [t |-> "list", s |-> "", n |-> 0, l |-> l]
NoneVal == [t |-> "null", s |-> "", n |-> 0, l |-> <<>>]
BoolVal(b) == [t |-> "bool", s |-> "", n |-> IF b THEN 1 ELSE 0, l |-> <<>>]

\* Python truthiness, as in "if not symbol".
\* A test that takes every value but None for a symbol.
Truthy_not_none(v) == v.t # "null"

Truthy(v) ==
    CASE v.t = "str" -> v.s # ""
      [] v.t = "int" -> v.n # 0
      [] v.t = "list" -> v.l # <<>>
      [] v.t = "bool" -> v.n # 0
      [] OTHER -> FALSE

\* str(v), as an f-string prints it.
Text(v) ==
    CASE v.t = "str" -> v.s
      [] v.t = "int" -> ToString(v.n)
      [] v.t = "list" -> "list"
      [] OTHER -> "None"

\* key in args
HasKey(args, k) == \E i \in 1..Len(args) : args[i][1] = k

\* args.get(k, default)
ArgsGet(args, k, default) ==
    IF HasKey(args, k)
    THEN args[CHOOSE i \in 1..Len(args) : args[i][1] = k][2]
    ELSE default

\* The items of a dict, without their order.
Items(args) == {args[i] : i \in 1..Len(args)}

\* A resolution that reads "ticker" alone.
ResolveSymbol_ticker_only(args) == ArgsGet(args, "ticker", NoneVal)

\* symbol = args.get("symbol", args.get("ticker"))
ResolveSymbol(args) == ArgsGet(args, "symbol", ArgsGet(args, "ticker", NoneVal))

(***************************************************************************)
(* The cache key: json.dumps(args, sort_keys=True).  The JSON text is the  *)
(* sequence of its members <<name, token>> in the order they are written;  *)
(* a token tells a quoted string from a bare number, null or array.        *)
(***************************************************************************)
\* The parameter names of the input schema, in the order sort_keys puts them
\* (by code point).
KeyOrder ==
    <<"action", "chartType", "count", "dataType", "expirationDate", "indices",
      "interval", "metrics", "optionType", "period", "statement", "symbol",
      "ticker">>

\* A token that writes a string without its quotes (as str() does).
ValueToken_unquoted(v) ==
    CASE v.t = "str" -> [quoted |-> FALSE, text |-> v.s, items |-> <<>>]
      [] v.t = "int" -> [quoted |-> FALSE, text |-> ToString(v.n), items |-> <<>>]
      [] v.t = "list" -> [quoted |-> FALSE, text |-> "[]", items |-> v.l]
      [] OTHER -> [quoted |-> FALSE, text |-> "null", items |-> <<>>]

ValueToken(v) ==
    CASE v.t = "str" -> [quoted |-> TRUE, text |-> v.s, items |-> <<>>]
      [] v.t = "int" -> [quoted |-> FALSE, text |-> ToString(v.n), items |-> <<>>]
      [] v.t = "list" -> [quoted |-> FALSE, text |-> "[]", items |-> v.l]
      [] OTHER -> [quoted |-> FALSE, text |-> "null", items |-> <<>>]

\* The names of args in sorted order.
SortedKeys(args) == SelectSeq(KeyOrder, LAMBDA k : HasKey(args, k))

\* A serialisation that keeps the insertion order (sort_keys left out).
json_dumps_unsorted(args) ==
    [i \in 1..Len(args) |-> <<args[i][1], ValueToken(args[i][2])>>]

\* A key computed after the alias and the default period are applied: the
\* symbol under one name, the period always present.
json_dumps_resolved(args) ==
    LET named == [i \in 1..Len(args) |->
                     IF args[i][1] = "ticker" /\ ~HasKey(args, "symbol")
                     THEN <<"symbol", args[i][2]>> ELSE args[i]]
        full == IF HasKey(args, "period") THEN named
                ELSE Append(named, <<"period", StrVal("1mo")>>)
        ks == SortedKeys(full)
    IN  [i \in 1..Len(ks) |-> <<ks[i], ValueToken(ArgsGet(full, ks[i], NoneVal))>>]

json_dumps(args) ==
    LET ks == SortedKeys(args)
    IN  [i \in 1..Len(ks) |-> <<ks[i], ValueToken(ArgsGet(args, ks[i], NoneVal))>>]

(***************************************************************************)
(* Results and exceptions.  A result is what a fetch function returns and  *)
(* what invoke hands to its caller: an output result ("output" and         *)
(* "sources") or an error result ("error" and "sources").  The content of  *)
(* an output is the call it answers, the upstream data it was built from   *)
(* (data, 0 for none), its message, if any, its "optionType" and the lists *)
(* it carries: for each list its name in the output, the upstream table    *)
(* its entries were made from and its length.  An exception is its         *)
(* message, a sequence of the parts the f-strings put together.            *)
(***************************************************************************)
NoCall ==
    [fn |-> "", symbol |-> NoneVal, period |-> NoneVal, interval |-> NoneVal,
     option_type |-> NoneVal, expiration_date |-> NoneVal, indices |-> NoneVal,
     statement |-> NoneVal, count |-> NoneVal, data_type |-> NoneVal,
     chart_type |-> NoneVal]

Output(call, data, message) ==
    [kind |-> "output", call |-> call, data |-> data, message |-> message,
     error |-> <<>>, optionType |-> "", lists |-> <<>>]

\* One list of an output.
OutputList(name, table, len) == [name |-> name, table |-> table, len |-> len]

ErrorResult(error) ==
    [kind |-> "error", call |-> NoCall, data |-> 0, message |-> "",
     error |-> error, optionType |-> "", lists |-> <<>>]

NoResult == [kind |-> "none", call |-> NoCall, data |-> 0, message |-> "",
             error |-> <<>>, optionType |-> "", lists |-> <<>>]

Returned(result) == [raised |-> FALSE, result |-> result, exc |-> <<>>]
Raised(exc) == [raised |-> TRUE, result |-> NoResult, exc |-> exc]

\* What the upstream library answers to one fetch: data (in one of MaxData
\* versions), nothing (an empty table, an empty list), or an exception.  The
\* answer to a news or an options fetch has its sizes: rows is the number of
\* news items, or of rows of the calls table; puts is the number of rows of
\* the puts table; expirations are the expiration dates of the ticker.
\* chart tells what drawing and uploading a chart meets: "ok", "no_figure"
\* (Figure() raises) or "upload_refused" (charts_folder.upload_stream
\* raises).
FirstExpiration == "2025-01-17"

UpstreamAnswer(status, data, rows, puts, expirations) ==
    [status |-> status, data |-> data, rows |-> rows, puts |-> puts,
     expirations |-> expirations, chart |-> "ok"]

\* The answer up, met by a chart that fails as told.
ChartFails(up, how) == [up EXCEPT !.chart = how]

\* str(e) of the exception of upload_stream.
UploadError == "upload refused"

Upstream ==
    {UpstreamAnswer("ok", d, 1, 1, <<FirstExpiration>>) : d \in 1..MaxData}
        \cup {UpstreamAnswer("empty", 0, 0, 0, <<>>),
              UpstreamAnswer("error", 0, 0, 0, <<>>)}

UpstreamError == "upstream error"

\* str(e) of the exception of yf.Ticker(symbol), for an answer whose status
\* is "no_ticker": the constructor itself raises.  Where a fetch function
\* constructs the ticker before its try block, the exception leaves the
\* function as it is, without the function's "Error getting ..." prefix.
TickerError == "ticker error"

(***************************************************************************)
(* The fetch functions.                                                    *)
(***************************************************************************)
_get_stock_quote(symbol, up) ==
    CASE up.status = "no_ticker" -> Raised(<<TickerError>>)
      [] up.status = "error" ->
           Raised(<<"Error getting quote for", Text(symbol), UpstreamError>>)
      [] OTHER -> Returned(Output([NoCall EXCEPT !.fn = "_get_stock_quote",
                                                 !.symbol = symbol], up.data, ""))

_get_stock_history(symbol, period, interval, up) ==
    LET call == [NoCall EXCEPT !.fn = "_get_stock_history", !.symbol = symbol,
                               !.period = period, !.interval = interval]
    IN  CASE up.status = "no_ticker" -> Raised(<<TickerError>>)
          [] up.status = "error" ->
               Raised(<<"Error getting history for", Text(symbol), UpstreamError>>)
          [] up.status = "empty" \/ up.rows = 0 ->
               Returned(Output([call EXCEPT !.period = NoneVal, !.interval = NoneVal],
                   0, "No historical data available for this period and interval"))
          [] OTHER ->
               Returned([Output(call, up.data, "") EXCEPT
                   !.lists = <<OutputList("data", "history", up.rows)>>])

\* The parameters of _get_stock_history, and the fields of the output it
\* returns for a history that is not empty.
history_parameters == {"symbol", "period", "interval"}

history_output_fields ==
    {"symbol", "period", "interval", "data", "name", "currency", "time_range",
     "price_change", "price_change_percent"}

\* The call self._get_stock_history(**kwargs): a keyword that is no parameter
\* of the function is a TypeError of the call.
call_get_stock_history(kwargs, up) ==
    IF \E i \in 1..Len(kwargs) : kwargs[i][1] \notin history_parameters
    THEN Raised(<<"TypeError", "unexpected keyword argument",
                  kwargs[CHOOSE i \in 1..Len(kwargs) :
                             kwargs[i][1] \notin history_parameters][1]>>)
    ELSE _get_stock_history(ArgsGet(kwargs, "symbol", NoneVal),
                            ArgsGet(kwargs, "period", StrVal("1mo")),
                            ArgsGet(kwargs, "interval", StrVal("1d")), up)

\* min(a, b) and max(a, b) on integers
Min(a, b) == IF a <= b THEN a ELSE b
Max(a, b) == IF a >= b THEN a ELSE b

\* len(l[:stop]) for a list l of length len: a negative stop counts from the end.
SliceLen(len, stop) == IF stop >= 0 THEN Min(len, stop) ELSE Max(len + stop, 0)

\* The elements of a sequence.
Range(q) == {q[i] : i \in 1..Len(q)}

\* _process_options_data(df): one entry per row of the table, [] when empty.
_process_options_data(rows) == IF rows = 0 THEN 0 ELSE rows

\* A choice of the table that answers 'call' with the puts and 'put' with the
\* calls.
options_data_swapped(option_type, up) ==
    CASE option_type = StrVal("call") ->
           [filtered |-> TRUE, option_type_str |-> "Calls", table |-> "puts",
            rows |-> up.puts]
      [] option_type = StrVal("put") ->
           [filtered |-> TRUE, option_type_str |-> "Puts", table |-> "calls",
            rows |-> up.rows]
      [] OTHER ->
           [filtered |-> FALSE, option_type_str |-> "", table |-> "", rows |-> 0]

\* The table the option type selects from the option chain, and its label.
options_data(option_type, up) ==
    CASE option_type = StrVal("call") ->
           [filtered |-> TRUE, option_type_str |-> "Calls", table |-> "calls",
            rows |-> up.rows]
      [] option_type = StrVal("put") ->
           [filtered |-> TRUE, option_type_str |-> "Puts", table |-> "puts",
            rows |-> up.puts]
      [] OTHER ->
           [filtered |-> FALSE, option_type_str |-> "", table |-> "", rows |-> 0]

_get_stock_options(symbol, option_type, expiration_date, up) ==
    LET expirations == up.expirations
        used == IF ~Truthy(expiration_date) THEN StrVal(expirations[1])
                ELSE expiration_date
        call == [NoCall EXCEPT !.fn = "_get_stock_options", !.symbol = symbol,
                               !.expiration_date = used]
        chosen == options_data(option_type, up)
    IN  CASE up.status = "no_ticker" -> Raised(<<TickerError>>)
          [] up.status = "error" ->
               Raised(<<"Error getting options for", Text(symbol), UpstreamError>>)
          [] expirations = <<>> ->
               Returned(Output([NoCall EXCEPT !.fn = "_get_stock_options",
                                              !.symbol = symbol],
                   0, "No options data available for this ticker"))
          [] Truthy(expiration_date)
                 /\ ~(expiration_date.t = "str"
                        /\ expiration_date.s \in Range(expirations)) ->
               Returned(Output([NoCall EXCEPT !.fn = "_get_stock_options",
                                              !.symbol = symbol],
                   0, "Expiration date not available"))
          [] chosen.filtered ->
               Returned([Output(call, up.data, "") EXCEPT
                   !.optionType = chosen.option_type_str,
                   !.lists = <<OutputList("data", chosen.table,
                       SliceLen(_process_options_data(chosen.rows), 10))>>])
          [] OTHER ->
               Returned([Output(call, up.data, "") EXCEPT
                   !.lists = <<OutputList("calls", "calls",
                                   SliceLen(_process_options_data(up.rows), 10)),
                               OutputList("puts", "puts",
                                   SliceLen(_process_options_data(up.puts), 10))>>])

_get_company_info(symbol, up) ==
    CASE up.status = "no_ticker" -> Raised(<<TickerError>>)
      [] up.status = "error" ->
           Raised(<<"Error getting company info for", Text(symbol), UpstreamError>>)
      [] OTHER -> Returned(Output([NoCall EXCEPT !.fn = "_get_company_info",
                                                 !.symbol = symbol], up.data, ""))

_get_market_indices(indices, up) ==
    LET used == IF Truthy(indices) THEN indices
                ELSE ListVal(<<"^GSPC", "^DJI", "^IXIC">>)
    IN  IF up.status \in {"error", "no_ticker"}
        THEN Raised(<<"Error getting market indices data",
                      IF up.status = "error" THEN UpstreamError ELSE TickerError>>)
        ELSE Returned(Output([NoCall EXCEPT !.fn = "_get_market_indices",
                                            !.indices = used], up.data, ""))

valid_types == {"income", "balance", "cash", "all"}

\* The periods of the descriptor's enum taken as valid as well.
valid_periods_descriptor ==
    {"annual", "quarterly", "1d", "5d", "1mo", "3mo", "6mo", "1y", "2y", "5y",
     "10y", "ytd", "max"}

valid_periods == {"annual", "quarterly"}

\* A statement whose rows cannot be converted: the exception is logged and
\* the statement is returned as the empty dict.
_process_financial_statement(up) ==
    IF up.status = "unprocessable" THEN 0 ELSE up.data

_get_company_financials(symbol, statement_type, period, up) ==
    LET call == [NoCall EXCEPT !.fn = "_get_company_financials",
                               !.symbol = symbol, !.statement = statement_type,
                               !.period = period]
        prefix == <<"Error getting company financials for", Text(symbol)>>
    IN  CASE up.status = "no_ticker" -> Raised(<<TickerError>>)
          [] up.status = "error" -> Raised(prefix \o <<UpstreamError>>)
          [] ~(statement_type.t = "str" /\ statement_type.s \in valid_types) ->
               Raised(prefix \o <<"Invalid statement type", Text(statement_type)>>)
          [] ~(period.t = "str" /\ period.s \in valid_periods) ->
               Raised(prefix \o <<"Invalid period", Text(period)>>)
          [] up.status = "empty" ->
               Returned(Output([NoCall EXCEPT !.fn = "_get_company_financials",
                                              !.symbol = symbol],
                   0, "No financial statement data available"))
          [] OTHER -> Returned(Output(call, _process_financial_statement(up), ""))

\* The news list has up.rows items; it is cut to news[:count] when it is not
\* empty and longer than count, and every item left becomes an article.  The
\* output's count is the number of articles returned, len(processed_news);
\* the count asked for is not part of the output.
_get_stock_news(symbol, count, up) ==
    LET source == IF Truthy(symbol) THEN Text(symbol) ELSE "general market"
        capped == IntVal(Min(count.n, 10))
        news == IF up.rows # 0 /\ up.rows > capped.n
                THEN SliceLen(up.rows, capped.n)
                ELSE up.rows
        call == [NoCall EXCEPT !.fn = "_get_stock_news",
                               !.symbol = IF Truthy(symbol) THEN symbol ELSE NoneVal,
                               !.count = IntVal(news)]
    IN  CASE up.status = "no_ticker" ->
               Raised(<<"Error getting news for", source, TickerError>>)
          [] up.status = "error" ->
               Raised(<<"Error getting news for", source, UpstreamError>>)
          [] news = 0 ->
               Returned(Output([call EXCEPT !.count = NoneVal], 0,
                               "No news articles available"))
          [] OTHER ->
               Returned([Output(call, up.data, "") EXCEPT
                   !.lists = <<OutputList("news", "news", news)>>])

_get_fear_greed_index(up) ==
    CASE up.status = "error" ->
           Raised(<<"Error getting Fear & Greed Index", UpstreamError>>)
      [] up.status = "empty" ->
           Raised(<<"Error getting Fear & Greed Index",
                    "No Fear & Greed Index data available">>)
      [] OTHER -> Returned(Output([NoCall EXCEPT !.fn = "_get_fear_greed_index"],
                                  up.data, ""))

\* The chart of a data type: the data is fetched by the data type's own fetch
\* function, plotted and uploaded; the output carries the fetched output.
\* An upload that raises is reported under both prefixes.  When Figure()
\* raises, fig is not bound and plt.close(fig) in the finally clause raises
\* UnboundLocalError, which is the exception that leaves the function.
_create_visualization(data_type, chart_type, args, up) ==
    LET prefix == <<"Error creating visualization for", Text(data_type)>>
        missing == ~Truthy(ArgsGet(args, "symbol", NoneVal))
                       /\ ~Truthy(ArgsGet(args, "ticker", NoneVal))
        symbol == ResolveSymbol(args)
        data ==
            CASE data_type = StrVal("stock_history") ->
                   _get_stock_history(symbol, ArgsGet(args, "period", StrVal("1mo")),
                                      ArgsGet(args, "interval", StrVal("1d")), up)
              [] data_type = StrVal("market_indices") ->
                   _get_market_indices(
                       ArgsGet(args, "indices", ListVal(<<"^GSPC", "^DJI", "^IXIC">>)), up)
              [] data_type = StrVal("financials") ->
                   _get_company_financials(symbol,
                       ArgsGet(args, "statement", StrVal("income")),
                       ArgsGet(args, "period", StrVal("annual")), up)
              [] OTHER -> _get_fear_greed_index(up)
        chart(d) == [d.call EXCEPT !.data_type = data_type, !.chart_type = chart_type]
    IN  CASE up.chart = "no_figure" ->
               Raised(<<"UnboundLocalError", "fig">>)
          [] data_type \notin {StrVal("stock_history"), StrVal("market_indices"),
                              StrVal("financials"), StrVal("fear_greed")} ->
               Raised(prefix \o <<"Unsupported data type for visualization",
                                  Text(data_type)>>)
          [] data_type \in {StrVal("stock_history"), StrVal("financials")} /\ missing ->
               Raised(prefix \o <<"Missing required parameter: symbol or ticker">>)
          [] data.raised -> Raised(prefix \o data.exc)
          [] data_type \in {StrVal("stock_history"), StrVal("financials")}
                 /\ data.result.message # "" ->
               \* the message-only output has no "data" / "financials" to plot
               Raised(prefix \o <<"KeyError">>)
          [] up.chart = "upload_refused" ->
               Raised(prefix \o <<"Error uploading chart to managed folder",
                                  UploadError>>)
          [] OTHER -> Returned(Output(chart(data.result), data.result.data, ""))

(***************************************************************************)
(* invoke: the try block (dispatch on the action).                         *)
(*   path "result":         a fetch function returned; its result is to be *)
(*                          cached and returned                            *)
(*   path "invalid_action": the else branch returned its error result      *)
(*   path "except":         an exception reached the except clause         *)
(* fetched tells whether the fetch function of the action was called, and  *)
(* calls how many times.                                                   *)
(***************************************************************************)
MissingSymbol ==
    [path |-> "except", fetched |-> FALSE, calls |-> 0, result |-> NoResult,
     exc |-> <<"Missing required parameter: symbol or ticker">>]

\* A dispatch that calls the fetch function again when it raised.
Fetched_retried(r) ==
    IF r.raised
    THEN [path |-> "except", fetched |-> TRUE, calls |-> 2, result |-> NoResult,
          exc |-> r.exc]
    ELSE [path |-> "result", fetched |-> TRUE, calls |-> 1, result |-> r.result,
          exc |-> <<>>]

\* The one call of the fetch function, r its outcome.
Fetched(r) ==
    IF r.raised
    THEN [path |-> "except", fetched |-> TRUE, calls |-> 1, result |-> NoResult,
          exc |-> r.exc]
    ELSE [path |-> "result", fetched |-> TRUE, calls |-> 1, result |-> r.result,
          exc |-> <<>>]

TryBlock(args, up) ==
    LET action == ArgsGet(args, "action", NoneVal)
        symbol == ResolveSymbol(args)
    IN  CASE action = StrVal("quote") ->
               IF ~Truthy(symbol) THEN MissingSymbol
               ELSE Fetched(_get_stock_quote(symbol, up))
          [] action = StrVal("stock_history") ->
               IF ~Truthy(symbol) THEN MissingSymbol
               ELSE Fetched(_get_stock_history(symbol,
                        ArgsGet(args, "period", StrVal("1mo")),
                        ArgsGet(args, "interval", StrVal("1d")), up))
          [] action = StrVal("options") ->
               IF ~Truthy(symbol) THEN MissingSymbol
               ELSE Fetched(_get_stock_options(symbol,
                        ArgsGet(args, "optionType", NoneVal),
                        ArgsGet(args, "expirationDate", NoneVal), up))
          [] action = StrVal("info") ->
               IF ~Truthy(symbol) THEN MissingSymbol
               ELSE Fetched(_get_company_info(symbol, up))
          [] action = StrVal("market_indices") ->
               Fetched(_get_market_indices(
                   ArgsGet(args, "indices", ListVal(<<"^GSPC", "^DJI", "^IXIC">>)), up))
          [] action = StrVal("company_financials") ->
               IF ~Truthy(symbol) THEN MissingSymbol
               ELSE Fetched(_get_company_financials(symbol,
                        ArgsGet(args, "statement", StrVal("income")),
                        ArgsGet(args, "period", StrVal("annual")), up))
          [] action = StrVal("stock_news") ->
               Fetched(_get_stock_news(symbol,
                   IntVal(Min(ArgsGet(args, "count", IntVal(5)).n, 10)), up))
          [] action = StrVal("fear_greed") ->
               Fetched(_get_fear_greed_index(up))
          [] action = StrVal("visualize") ->
               IF ~Truthy(ArgsGet(args, "dataType", NoneVal))
               THEN [path |-> "except", fetched |-> FALSE, calls |-> 0,
                     result |-> NoResult,
                     exc |-> <<"Missing required parameter: dataType">>]
               ELSE Fetched(_create_visualization(
                        ArgsGet(args, "dataType", NoneVal),
                        ArgsGet(args, "chartType", StrVal("line")), args, up))
          [] OTHER ->
               [path |-> "invalid_action", fetched |-> FALSE, calls |-> 0,
                result |-> ErrorResult(<<"Invalid action", Text(action)>>),
                exc |-> <<>>]

\* An except clause that reports the failure without the exception's text.
ExceptResult_generic(action, exc) ==
    ErrorResult(<<"Failed to fetch data for action", Text(action)>>)

\* The error result the except clause builds from the exception.
ExceptResult(action, exc) ==
    ErrorResult(<<"Failed to fetch data for action", Text(action)>> \o exc)

\* What invoke returns when the lookup misses: the result of the try block,
\* or the error result of the except clause.
ReturnOnMiss(args, up) ==
    LET try == TryBlock(args, up)
    IN  IF try.path = "except"
        THEN ExceptResult(ArgsGet(args, "action", NoneVal), try.exc)
        ELSE try.result

(***************************************************************************)
(* invoke: the cache.                                                      *)
(***************************************************************************)
\* cache_timestamps.get(key, 0)
TimestampOf(timestamps, key) ==
    IF key \in DOMAIN timestamps THEN timestamps[key] ELSE 0

\* The freshness test with the comparison turned round.
CacheHit_reversed(c, timestamps, expiry, key, current_time) ==
    /\ key \in DOMAIN c
    /\ current_time - TimestampOf(timestamps, key) > expiry

\* The freshness test with the boundary counted as fresh.
CacheHit_inclusive(c, timestamps, expiry, key, current_time) ==
    /\ key \in DOMAIN c
    /\ current_time - TimestampOf(timestamps, key) <= expiry

\* "cache_key in self.cache and current_time - timestamp < self.cache_expiry"
CacheHit(c, timestamps, expiry, key, current_time) ==
    /\ key \in DOMAIN c
    /\ current_time - TimestampOf(timestamps, key) < expiry

\* d[key] = value on a dict
DictSet(d, key, value) ==
    [k \in DOMAIN d \cup {key} |-> IF k = key THEN value ELSE d[k]]

\* The dict with no entries.
EmptyDict == [k \in {} |-> 0]

\* An else branch that stores its error result under the key.
CacheAfterInvalid_stored(c, key, result) == DictSet(c, key, result)

\* The else branch (invalid action) returns before the store: the cache as it
\* was.
CacheAfterInvalid(c, key, result) == c

\* An except clause that drops the entry of the key.
CacheAfterExcept_evicted(c, key, result) ==
    [k \in DOMAIN c \ {key} |-> c[k]]

\* What the except clause leaves in the cache when it also stores its error
\* result.
CacheAfterExcept_stored(c, key, result) == DictSet(c, key, result)

\* The except clause stores nothing: the cache as it was.
CacheAfterExcept(c, key, result) == c

\* The timestamps after an except clause that stamps the key all the same.
TimestampsAfterExcept_stamped(timestamps, key, current_time) ==
    DictSet(timestamps, key, current_time)

\* The except clause stamps nothing.
TimestampsAfterExcept(timestamps, key, current_time) == timestamps

\* A store that writes the result and no timestamp.
StoreTimestamp_skipped(timestamps, key, current_time) == timestamps

\* A store that keeps the timestamp of an entry already there.
StoreTimestamp_keep_first(timestamps, key, current_time) ==
    IF key \in DOMAIN timestamps THEN timestamps
    ELSE DictSet(timestamps, key, current_time)

\* self.cache_timestamps[cache_key] = current_time
StoreTimestamp(timestamps, key, current_time) ==
    DictSet(timestamps, key, current_time)

\* A store that keeps only results that carry data.
StoreResult_data_only(c, key, result) ==
    IF result.data = 0 THEN c ELSE DictSet(c, key, result)

\* A store that keeps the result of an entry already there.
StoreResult_keep_first(c, key, result) ==
    IF key \in DOMAIN c THEN c ELSE DictSet(c, key, result)

\* self.cache[cache_key] = result
StoreResult(c, key, result) == DictSet(c, key, result)

\* A hit that stamps the entry again (a sliding expiry).
TimestampsAfterHit_refreshed(timestamps, key, current_time) ==
    DictSet(timestamps, key, current_time)

\* A hit returns at once: the timestamps as they were.
TimestampsAfterHit(timestamps, key, current_time) == timestamps

(***************************************************************************)
(* History: the freshness window of a key.  A successful fetch made        *)
(* outside any open window of its key opens one at the time of the call;   *)
(* every fetch made for the key while that window is open (less than       *)
(* expiry after its start) is counted in it.                               *)
(***************************************************************************)
WindowAfter(w, key, at, expiry, fetched, stored) ==
    IF ~fetched THEN w
    ELSE IF key \in DOMAIN w /\ at - w[key].start < expiry
         THEN [w EXCEPT ![key].fetches = Min(@ + 1, MaxFetches)]
         ELSE IF stored
              THEN DictSet(w, key, [start |-> at, fetches |-> 1])
              ELSE w

(***************************************************************************)
(* The configurations and the requests of the specifications.              *)
(***************************************************************************)
\* config.get("cache_expiry", 5), in minutes.
DefaultExpiryMinutes == 5

ExpiryMinutes == {-1, 0, 1, 5}

\* A configuration: its "cache_expiry" and its "logging_level", each present
\* or absent.
Config(has_cache_expiry, minutes, has_logging_level, level) ==
    [has_cache_expiry |-> has_cache_expiry, cache_expiry |-> minutes,
     has_logging_level |-> has_logging_level, logging_level |-> level]

\* The configurations that name no logging level.
Configs ==
    {Config(FALSE, 0, FALSE, "")}
        \cup {Config(TRUE, m, FALSE, "") : m \in ExpiryMinutes}

\* The clock advances by one of these.
Deltas == {100, 201}

\* Every insertion order of a set of items.
Orderings(items) ==
    {q \in [1..Cardinality(items) -> items] :
        \A i, j \in 1..Cardinality(items) : i # j => q[i] # q[j]}

\* The item sets of the requests: an action, and a ticker or none.
ReqActions == {"quote", "bogus"}
ReqTickers == {"AAPL", "MSFT"}

ReqItems ==
    {{<<"action", StrVal(a)>>} : a \in ReqActions}
        \cup {{<<"action", StrVal(a)>>, <<"ticker", StrVal(s)>>} :
                 a \in ReqActions, s \in ReqTickers}

Requests == UNION {Orderings(items) : items \in ReqItems}

(***************************************************************************)
(* The operations.                                                         *)
(***************************************************************************)
\* No thread is inside invoke.
NoThreads == <<>>

\* ret: the operation, how it returned (kind), the cache key and the time of
\* an invoke, whether and how many times it called the fetch function, the
\* result returned, the exception caught or raised, and the number of cache
\* entries a set_config dropped.
NoReturn ==
    [op |-> "none", kind |-> "none", key |-> <<>>, at |-> 0, fetched |-> FALSE,
     calls |-> 0, result |-> NoResult, exc |-> <<>>, dropped |-> 0]

(***************************************************************************)
(* The logger (utils/logging.py): whether it is initialized, and its       *)
(* level.                                                                  *)
(***************************************************************************)
\* The integer attributes of the logging module with an upper-case name.
LogLevels ==
    [CRITICAL |-> 50, FATAL |-> 50, ERROR |-> 40, WARNING |-> 30, WARN |-> 30,
     INFO |-> 20, DEBUG |-> 10, NOTSET |-> 0]

NoLogger == [initialized |-> FALSE, level |-> 0]

\* level.upper(), on the names the configurations use.
Upper(level) ==
    CASE level = "debug" -> "DEBUG"
      [] level = "Warning" -> "WARNING"
      [] level = "verbose" -> "VERBOSE"
      [] OTHER -> level

\* The first use of the logger sets its level to INFO.
_initialize_logger(lg) ==
    IF lg.initialized THEN lg ELSE [initialized |-> TRUE, level |-> LogLevels.INFO]

\* A set_level that falls back to DEBUG on a name that is no level.
set_level_lenient(lg, level) ==
    [raised |-> FALSE, exc |-> <<>>,
     logger |-> [_initialize_logger(lg) EXCEPT !.level =
                    IF Upper(level) \in DOMAIN LogLevels
                    THEN LogLevels[Upper(level)] ELSE LogLevels.DEBUG]]

\* set_level(level): ValueError unless getattr(logging, level.upper()) is an
\* integer; the level is set after that test.
set_level(lg, level) ==
    IF Upper(level) \notin DOMAIN LogLevels
    THEN [raised |-> TRUE, exc |-> <<"ValueError", "Invalid log level", level>>,
          logger |-> _initialize_logger(lg)]
    ELSE [raised |-> FALSE, exc |-> <<>>,
          logger |-> [_initialize_logger(lg) EXCEPT
                         !.level = LogLevels[Upper(level)]]]

\* setup_logging(): the level of the configuration, INFO by default; the
\* ValueError of set_level is logged and raised again.
setup_logging(lg, config) ==
    set_level(lg, IF config.has_logging_level THEN config.logging_level ELSE "INFO")

Init ==
    /\ configured = FALSE
    /\ self_config = Config(FALSE, 0, FALSE, "")
    /\ logger = NoLogger
    /\ a_req = <<>>
    /\ a_up = UpstreamAnswer("empty", 0, 0, 0, <<>>)
    /\ threads = NoThreads
    /\ cache = EmptyDict
    /\ cache_timestamps = EmptyDict
    /\ cache_expiry = 0
    /\ now = 0
    /\ ret = NoReturn
    /\ window = EmptyDict
    /\ trace = <<>>
    /\ k_req = <<>>
    /\ k_keys = <<>>

\* self.cache_expiry = config.get("cache_expiry", 5) * 60
ExpiryOf(config) ==
    (IF config.has_cache_expiry THEN config.cache_expiry
     ELSE DefaultExpiryMinutes) * 60

\* A set_config that keeps the entries of the cache.
CacheAfterConfig_kept(c) == c

\* self.cache = {}
CacheAfterConfig(c) == EmptyDict

\* set_config(config, plugin_config): the attributes are assigned, then the
\* logging is set up; the ValueError of an invalid logging level leaves
\* set_config after the assignments.
set_config(config) ==
    LET setup == setup_logging(logger, config)
    IN  /\ configured' = TRUE
        /\ self_config' = config
        /\ cache' = CacheAfterConfig(cache)
        /\ cache_timestamps' = EmptyDict
        /\ cache_expiry' = ExpiryOf(config)
        /\ logger' = setup.logger
        /\ ret' = [NoReturn EXCEPT !.op = "set_config",
                       !.kind = IF setup.raised THEN "raised" ELSE "none",
                       !.at = now, !.exc = setup.exc,
                       !.dropped = Cardinality(DOMAIN cache)]
        /\ window' = EmptyDict
        /\ UNCHANGED <<now, trace, k_req, k_keys, a_req, a_up, threads>>

\* get_descriptor(tool): its logger.debug is a use of the lazy logger, the
\* first one on a fresh process; the descriptor returned is a constant and
\* ret keeps the return of the last set_config or invoke.
get_descriptor ==
    /\ logger' = _initialize_logger(logger)
    /\ UNCHANGED <<configured, self_config, cache, cache_timestamps, cache_expiry,
                   now, ret, window, trace, k_req, k_keys, a_req, a_up, threads>>

\* The wall clock moves on between two operations.
Tick ==
    /\ \E d \in Deltas : now + d <= MaxTime /\ now' = now + d
    /\ UNCHANGED <<configured, self_config, logger, cache, cache_timestamps,
                   cache_expiry, ret, window, trace, k_req, k_keys, a_req, a_up,
                   threads>>

\* invoke(input, trace) with input["input"] = args, the upstream answering up.
\* ret records the return: a cache hit, a stored fetch result, the error
\* result of the except clause or the error result of an invalid action; or
\* the KeyError of args["action"], which is read before the try block, on a
\* request without an "action".
InvokeBody(args, up) ==
    LET action == ArgsGet(args, "action", NoneVal)
        cache_key == json_dumps(args)
        current_time == now
        try == TryBlock(args, up)
        error == ExceptResult(action, try.exc)
        hit == CacheHit(cache, cache_timestamps, cache_expiry, cache_key,
                        current_time)
        done(kind, fetched, calls, result, exc) ==
            [op |-> "invoke", kind |-> kind, key |-> cache_key,
             at |-> current_time, fetched |-> fetched, calls |-> calls,
             result |-> result, exc |-> exc, dropped |-> 0]
    IN  /\ configured
        /\ CASE ~HasKey(args, "action") ->
                  /\ ret' = [NoReturn EXCEPT !.op = "invoke", !.kind = "raised",
                                 !.at = current_time,
                                 !.exc = <<"KeyError", "action">>]
                  /\ UNCHANGED <<cache, cache_timestamps, window>>
             [] HasKey(args, "action") /\ hit ->
                  /\ ret' = done("hit", FALSE, 0, cache[cache_key], <<>>)
                  /\ cache_timestamps' =
                         TimestampsAfterHit(cache_timestamps, cache_key, current_time)
                  /\ UNCHANGED <<cache, window>>
             [] HasKey(args, "action") /\ ~hit /\ try.path = "result" ->
                  /\ cache' = StoreResult(cache, cache_key, try.result)
                  /\ cache_timestamps' =
                         StoreTimestamp(cache_timestamps, cache_key, current_time)
                  /\ ret' = done("stored", TRUE, try.calls, try.result, <<>>)
                  /\ window' = WindowAfter(window, cache_key, current_time,
                                           cache_expiry, TRUE, TRUE)
             [] HasKey(args, "action") /\ ~hit /\ try.path = "invalid_action" ->
                  /\ cache' = CacheAfterInvalid(cache, cache_key, try.result)
                  /\ ret' = done("invalid", FALSE, try.calls, try.result, <<>>)
                  /\ UNCHANGED <<cache_timestamps, window>>
             [] OTHER ->
                  /\ cache' = CacheAfterExcept(cache, cache_key, error)
                  /\ cache_timestamps' =
                         TimestampsAfterExcept(cache_timestamps, cache_key,
                                               current_time)
                  /\ ret' = done("error", try.fetched, try.calls, error, try.exc)
                  /\ window' = WindowAfter(window, cache_key, current_time,
                                           cache_expiry, try.fetched, FALSE)
        /\ UNCHANGED <<configured, self_config, logger, cache_expiry, now,
                       k_req, k_keys>>

invoke ==
    /\ \E args \in Requests, up \in Upstream : InvokeBody(args, up)
    /\ UNCHANGED <<trace, a_req, a_up, threads>>

Next ==
    \/ \E config \in Configs : set_config(config)
    \/ get_descriptor
    \/ Tick
    \/ invoke

Spec == Init /\ [][Next]_vars

(***************************************************************************)
(* The logged specification: an instance configured at time 0 serves at    *)
(* most MaxTrace invokes, and the return of each is appended to trace.     *)
(***************************************************************************)
InitTrace ==
    /\ configured = TRUE
    /\ logger = setup_logging(NoLogger, Config(FALSE, 0, FALSE, "")).logger
    /\ a_req = <<>>
    /\ a_up = UpstreamAnswer("empty", 0, 0, 0, <<>>)
    /\ threads = NoThreads
    /\ cache = EmptyDict
    /\ cache_timestamps = EmptyDict
    /\ \E config \in Configs :
           self_config = config /\ cache_expiry = ExpiryOf(config)
    /\ now = 0
    /\ ret = [NoReturn EXCEPT !.op = "set_config"]
    /\ window = EmptyDict
    /\ trace = <<>>
    /\ k_req = <<>>
    /\ k_keys = <<>>

\* The logged requests: the quote of one ticker, in both insertion orders, and
\* the quote that names no ticker.
TraceRequests ==
    {q \in Requests :
        Items(q) \in {{<<"action", StrVal("quote")>>, <<"ticker", StrVal("AAPL")>>},
                      {<<"action", StrVal("quote")>>}}}

invoke_logged ==
    /\ Len(trace) < MaxTrace
    /\ \E args \in TraceRequests, up \in Upstream : InvokeBody(args, up)
    /\ trace' = Append(trace, ret')
    /\ UNCHANGED <<a_req, a_up, threads>>

NextTrace ==
    \/ Tick
    \/ invoke_logged

SpecTrace == InitTrace /\ [][NextTrace]_vars

(***************************************************************************)
(* The key specification: two requests are drawn and their cache keys are  *)
(* computed.  The requests are all the dicts of at most MaxKeyParams       *)
(* parameters over a few names (in every insertion order) and values (a    *)
(* string, a string of digits and the integer those digits write).         *)
(***************************************************************************)
MaxKeyParams == 3

KeyNames == {"ticker", "action", "symbol"}
KeyValues == {StrVal("AAPL"), StrVal("5"), IntVal(5)}

KeyRequests ==
    UNION {{q \in [1..n -> KeyNames \X KeyValues] :
               \A i, j \in 1..n : i # j => q[i][1] # q[j][1]} :
           n \in 1..MaxKeyParams}

InitKey ==
    /\ configured = FALSE
    /\ self_config = Config(FALSE, 0, FALSE, "")
    /\ logger = NoLogger
    /\ a_req = <<>>
    /\ a_up = UpstreamAnswer("empty", 0, 0, 0, <<>>)
    /\ threads = NoThreads
    /\ cache = EmptyDict
    /\ cache_timestamps = EmptyDict
    /\ cache_expiry = 0
    /\ now = 0
    /\ ret = NoReturn
    /\ window = EmptyDict
    /\ trace = <<>>
    /\ k_req \in KeyRequests \X KeyRequests
    /\ k_keys = <<>>

\* cache_key = json.dumps(args, sort_keys=True), for each of the two.
canonicalize ==
    /\ k_keys = <<>>
    /\ k_keys' = <<json_dumps(k_req[1]), json_dumps(k_req[2])>>
    /\ UNCHANGED <<configured, self_config, logger, cache, cache_timestamps,
                   cache_expiry, now, ret, window, trace, k_req, a_req, a_up,
                   threads>>

NextKey == canonicalize

SpecKey == InitKey /\ [][NextKey]_vars

(***************************************************************************)
(* The dispatch specification: an instance configured by default serves    *)
(* one request, of any action, on its empty cache; the upstream answers    *)
(* with tables of up to MaxRows rows.                                      *)
(***************************************************************************)
MaxRows == 12

\* The "action" enum of the descriptor.
ActionEnum ==
    {"quote", "stock_history", "options", "info", "market_indices",
     "company_financials", "stock_news", "fear_greed", "visualize"}

ActSymbols == {StrVal("AAPL"), StrVal(""), NoneVal}
ActCounts == {-1, 0, 1, 10, 11}

\* The symbol of a request: none, under "symbol", under "ticker", or both.
ActSymbolParams ==
    {<<>>, <<<<"symbol", StrVal("MSFT")>>, <<"ticker", StrVal("AAPL")>>>>,
     <<<<"symbol", StrVal("")>>, <<"ticker", StrVal("AAPL")>>>>}
        \cup {<<<<name, x>>>> : name \in {"symbol", "ticker"}, x \in ActSymbols}

\* The parameters of its own a request of an action may carry.
ActParams(a) ==
    CASE a = "stock_news" ->
           {<<>>} \cup {<<<<"count", IntVal(c)>>>> : c \in ActCounts}
      [] a = "options" ->
           {t \o e :
               t \in {<<>>} \cup {<<<<"optionType", StrVal(x)>>>> :
                                      x \in {"call", "put", "straddle"}},
               e \in {<<>>} \cup {<<<<"expirationDate", StrVal(x)>>>> :
                                      x \in {FirstExpiration, "2030-01-01"}}}
      [] a = "visualize" ->
           {<<>>} \cup {<<<<"dataType", StrVal(x)>>>> :
                           x \in {"stock_history", "fear_greed", "pie"}}
      [] a = "company_financials" ->
           {t \o e :
               t \in {<<>>} \cup {<<<<"statement", StrVal(x)>>>> :
                                      x \in {"all", "bogus"}},
               e \in {<<>>} \cup {<<<<"period", StrVal(x)>>>> :
                                      x \in {"quarterly", "1y"}}}
      [] OTHER -> {<<>>}

\* The requests: every action of the enum and one outside it, and requests
\* that carry no "action".
ActRequests ==
    UNION {{<<<<"action", StrVal(a)>>>> \o sym \o par :
               sym \in ActSymbolParams, par \in ActParams(a)} :
           a \in ActionEnum \cup {"bogus"}}
        \cup {<<<<"ticker", StrVal("AAPL")>>>>, <<>>}

UpstreamTables ==
    {UpstreamAnswer("ok", 1, rows, puts, <<FirstExpiration, "2025-02-21">>) :
        rows \in 0..MaxRows, puts \in 0..MaxRows}
        \cup {UpstreamAnswer("empty", 0, 0, 0, <<>>),
              UpstreamAnswer("error", 0, 0, 0, <<>>),
              UpstreamAnswer("unprocessable", 1, 1, 1, <<FirstExpiration>>)}
        \cup {UpstreamAnswer("no_ticker", 1, 1, 1, <<FirstExpiration>>)}
        \cup {ChartFails(UpstreamAnswer("ok", 1, 1, 1, <<FirstExpiration>>), how) :
                 how \in {"no_figure", "upload_refused"}}

InitActs ==
    /\ configured = TRUE
    /\ self_config = Config(FALSE, 0, FALSE, "")
    /\ logger = setup_logging(NoLogger, self_config).logger
    /\ cache = EmptyDict
    /\ cache_timestamps = EmptyDict
    /\ cache_expiry = ExpiryOf(self_config)
    /\ now = 0
    /\ ret = [NoReturn EXCEPT !.op = "set_config"]
    /\ window = EmptyDict
    /\ trace = <<>>
    /\ k_req = <<>>
    /\ k_keys = <<>>
    /\ a_req = <<>>
    /\ a_up = UpstreamAnswer("empty", 0, 0, 0, <<>>)
    /\ threads = NoThreads

invoke_on_empty ==
    /\ ret.op = "set_config"
    /\ cache = EmptyDict
    /\ \E args \in ActRequests, up \in UpstreamTables :
           /\ InvokeBody(args, up)
           /\ a_req' = args
           /\ a_up' = up
    /\ UNCHANGED <<trace, threads>>

NextActs == invoke_on_empty

SpecActs == InitActs /\ [][NextActs]_vars

(***************************************************************************)
(* The configuration specification: an instance is configured, and         *)
(* configured again, with every cache expiry and logging level, and serves *)
(* the quote requests in between.                                          *)
(***************************************************************************)
ConfigLevels == {"debug", "Warning", "verbose", "BASIC_FORMAT"}

AllConfigs ==
    {Config(c.has_cache_expiry, c.cache_expiry, l[1], l[2]) :
        c \in Configs, l \in {<<FALSE, "">>} \cup ({TRUE} \X ConfigLevels)}

configure == \E config \in AllConfigs : set_config(config)

invoke_configured ==
    /\ \E args \in TraceRequests, up \in Upstream : InvokeBody(args, up)
    /\ UNCHANGED <<trace, a_req, a_up, threads>>

NextConfig ==
    \/ configure
    \/ get_descriptor
    \/ invoke_configured

SpecConfig == Init /\ [][NextConfig]_vars

(***************************************************************************)
(* The history specification: _get_stock_history is called on a configured *)
(* instance with keyword arguments, as the tests of the repository call    *)
(* it, the upstream answering with a history of up to MaxRows rows.        *)
(***************************************************************************)
HistoryCalls ==
    {<<<<"symbol", StrVal(x)>>>> \o p \o i \o e :
        x \in {"AAPL", "MSFT"},
        p \in {<<>>} \cup {<<<<"period", StrVal(v)>>>> : v \in {"1mo", "1y"}},
        i \in {<<>>, <<<<"interval", StrVal("1d")>>>>},
        e \in {<<>>} \cup {<<<<"enhanced_format", BoolVal(b)>>>> : b \in BOOLEAN}}

HistoryUpstream == {up \in UpstreamTables : up.puts = 0}

history_called ==
    /\ ret.op = "set_config"
    /\ \E kwargs \in HistoryCalls, up \in HistoryUpstream :
           LET r == call_get_stock_history(kwargs, up)
           IN  /\ ret' = [NoReturn EXCEPT !.op = "_get_stock_history",
                              !.kind = IF r.raised THEN "raised" ELSE "returned",
                              !.at = now, !.result = r.result, !.exc = r.exc]
               /\ a_req' = kwargs
               /\ a_up' = up
    /\ UNCHANGED <<configured, self_config, logger, cache, cache_timestamps,
                   cache_expiry, now, window, trace, k_req, k_keys, threads>>

NextHistory == history_called

SpecHistory == InitActs /\ [][NextHistory]_vars

(***************************************************************************)
(* The concurrent specification: two threads call invoke on one configured *)
(* instance, each once.  The instance has no lock, so the statements of    *)
(* the two invokes interleave: reading the clock (line 183), the lookup    *)
(* (186-188), the try block with its fetch (193-260), the store of the     *)
(* result (264) and the store of the timestamp (265).  The clock starts at *)
(* cache_expiry, as a wall clock is far beyond it.  threads.run is the     *)
(* invoke of each thread; threads.result_from is history: per key, the     *)
(* time read by the request whose result the cache holds.                  *)
(***************************************************************************)
Threads == {"A", "B"}

IdleThread ==
    [pc |-> "idle", args |-> <<>>, key |-> <<>>, at |-> 0, kind |-> "none",
     result |-> NoResult, fetches |-> 0, served_from |-> 0]

\* A per-key lock: a thread that missed waits while another thread holds a
\* fetched result for the key that it has not stored yet, and looks again.
AwaitsInFlight_per_key(run, t) ==
    \E u \in Threads \ {t} :
        /\ run[u].key = run[t].key
        /\ run[u].pc \in {"store_result", "store_timestamp"}

\* invoke looks at no other invoke in flight: after a miss it fetches.
AwaitsInFlight(run, t) == FALSE

InitConc ==
    /\ configured = TRUE
    /\ self_config = Config(FALSE, 0, FALSE, "")
    /\ logger = setup_logging(NoLogger, self_config).logger
    /\ cache = EmptyDict
    /\ cache_timestamps = EmptyDict
    /\ cache_expiry = ExpiryOf(self_config)
    /\ now = cache_expiry
    /\ ret = [NoReturn EXCEPT !.op = "set_config"]
    /\ window = EmptyDict
    /\ trace = <<>>
    /\ k_req = <<>>
    /\ k_keys = <<>>
    /\ a_req = <<>>
    /\ a_up = UpstreamAnswer("empty", 0, 0, 0, <<>>)
    /\ threads = [run |-> [t \in Threads |-> IdleThread], result_from |-> EmptyDict]

\* args = input["input"]; cache_key = json.dumps(...); current_time = time.time()
c_begin(t) ==
    /\ threads.run[t].pc = "idle"
    /\ \E args \in TraceRequests :
           threads' = [threads EXCEPT !.run[t] =
               [@ EXCEPT !.pc = "lookup", !.args = args, !.key = json_dumps(args),
                         !.at = now]]
    /\ UNCHANGED <<configured, self_config, logger, cache, cache_timestamps,
                   cache_expiry, now, ret, window, trace, k_req, k_keys, a_req,
                   a_up>>

\* The cache check, and the return of the cached result on a hit.
c_lookup(t) ==
    LET th == threads.run[t]
    IN  /\ th.pc = "lookup"
        /\ IF CacheHit(cache, cache_timestamps, cache_expiry, th.key, th.at)
           THEN /\ threads' = [threads EXCEPT !.run[t] =
                       [@ EXCEPT !.pc = "done", !.kind = "hit",
                                 !.result = cache[th.key],
                                 !.served_from = threads.result_from[th.key]]]
                /\ cache_timestamps' =
                       TimestampsAfterHit(cache_timestamps, th.key, th.at)
           ELSE /\ threads' = [threads EXCEPT !.run[t].pc = "fetch"]
                /\ UNCHANGED cache_timestamps
        /\ UNCHANGED <<configured, self_config, logger, cache, cache_expiry, now,
                       ret, window, trace, k_req, k_keys, a_req, a_up>>

\* The try block up to the store: the fetch returns a result to store, or
\* the invoke returns an error result.
c_fetch(t) ==
    LET th == threads.run[t]
    IN  /\ th.pc = "fetch"
        /\ IF AwaitsInFlight(threads.run, t)
           THEN threads' = [threads EXCEPT !.run[t].pc = "lookup"]
           ELSE \E up \in Upstream :
                    LET try == TryBlock(th.args, up)
                    IN  threads' = [threads EXCEPT !.run[t] =
                            CASE try.path = "result" ->
                                   [@ EXCEPT !.pc = "store_result",
                                             !.result = try.result,
                                             !.fetches = @ + try.calls]
                              [] try.path = "invalid_action" ->
                                   [@ EXCEPT !.pc = "done", !.kind = "invalid",
                                             !.result = try.result]
                              [] OTHER ->
                                   [@ EXCEPT !.pc = "done", !.kind = "error",
                                             !.result = ExceptResult(
                                                 ArgsGet(th.args, "action", NoneVal),
                                                 try.exc),
                                             !.fetches = @ + try.calls]]
        /\ UNCHANGED <<configured, self_config, logger, cache, cache_timestamps,
                       cache_expiry, now, ret, window, trace, k_req, k_keys,
                       a_req, a_up>>

\* self.cache[cache_key] = result
c_store_result(t) ==
    LET th == threads.run[t]
    IN  /\ th.pc = "store_result"
        /\ cache' = StoreResult(cache, th.key, th.result)
        /\ threads' = [threads EXCEPT
               !.run[t].pc = "store_timestamp",
               !.result_from = DictSet(@, th.key, th.at)]
        /\ UNCHANGED <<configured, self_config, logger, cache_timestamps,
                       cache_expiry, now, ret, window, trace, k_req, k_keys,
                       a_req, a_up>>

\* self.cache_timestamps[cache_key] = current_time; return result
c_store_timestamp(t) ==
    LET th == threads.run[t]
    IN  /\ th.pc = "store_timestamp"
        /\ cache_timestamps' = StoreTimestamp(cache_timestamps, th.key, th.at)
        /\ window' = WindowAfter(window, th.key, th.at, cache_expiry, TRUE, TRUE)
        /\ threads' = [threads EXCEPT !.run[t] =
               [@ EXCEPT !.pc = "done", !.kind = "stored"]]
        /\ UNCHANGED <<configured, self_config, logger, cache, cache_expiry, now,
                       ret, trace, k_req, k_keys, a_req, a_up>>

\* The wall clock moves on between two statements.
c_tick ==
    /\ \E d \in Deltas : now + d <= cache_expiry + MaxTime /\ now' = now + d
    /\ UNCHANGED <<configured, self_config, logger, cache, cache_timestamps,
                   cache_expiry, ret, window, trace, k_req, k_keys, a_req, a_up,
                   threads>>

NextConc ==
    \/ \E t \in Threads : c_begin(t)
    \/ \E t \in Threads : c_lookup(t)
    \/ \E t \in Threads : c_fetch(t)
    \/ \E t \in Threads : c_store_result(t)
    \/ \E t \in Threads : c_store_timestamp(t)
    \/ c_tick

SpecConc == InitConc /\ [][NextConc]_vars

(***************************************************************************)
(* The pair specification: a configured instance with an empty cache       *)
(* serves two stock_history requests, one after the other at the same      *)
(* time.  The requests name the symbol as "symbol" or as "ticker" and give *)
(* the period and the interval or leave them to their defaults.            *)
(***************************************************************************)
PairRequests ==
    {<<<<"action", StrVal("stock_history")>>>> \o sym \o per \o int :
        sym \in {<<<<"symbol", StrVal("AAPL")>>>>, <<<<"ticker", StrVal("AAPL")>>>>,
                 <<<<"ticker", StrVal("MSFT")>>>>},
        per \in {<<>>} \cup {<<<<"period", StrVal(x)>>>> : x \in {"1mo", "1y"}},
        int \in {<<>>, <<<<"interval", StrVal("1d")>>>>}}

InitPair ==
    /\ configured = TRUE
    /\ self_config = Config(FALSE, 0, FALSE, "")
    /\ logger = setup_logging(NoLogger, self_config).logger
    /\ cache = EmptyDict
    /\ cache_timestamps = EmptyDict
    /\ cache_expiry = ExpiryOf(self_config)
    /\ now = 0
    /\ ret = [NoReturn EXCEPT !.op = "set_config"]
    /\ window = EmptyDict
    /\ trace = <<>>
    /\ k_req \in PairRequests \X PairRequests
    /\ k_keys = <<>>
    /\ a_req = <<>>
    /\ a_up = UpstreamAnswer("empty", 0, 0, 0, <<>>)
    /\ threads = NoThreads

\* The next request of the pair is served.
invoke_pair ==
    /\ Len(trace) < Len(k_req)
    /\ \E up \in Upstream :
           /\ InvokeBody(k_req[Len(trace) + 1], up)
           /\ a_up' = up
    /\ a_req' = k_req[Len(trace) + 1]
    /\ trace' = Append(trace, ret')
    /\ UNCHANGED threads

NextPair == invoke_pair

SpecPair == InitPair /\ [][NextPair]_vars

(***************************************************************************)
(* Properties.                                                             *)
(***************************************************************************)
\* A step of invoke: the return is an invoke's and the clock stood still.
InvokeStep == ret'.op = "invoke" /\ now' = now

\* The key of the quote request for AAPL.
QuoteAAPL ==
    json_dumps(<<<<"action", StrVal("quote")>>, <<"ticker", StrVal("AAPL")>>>>)

\* C1: a lookup at time now returns the stored result if and only if an entry
\* exists for the key and now - storedAt < expirySeconds; so the boundary
\* now - storedAt = expirySeconds is a miss.
C1_LookupIffFresh ==
    [][InvokeStep =>
          LET key == ret'.key
              fresh == /\ key \in DOMAIN cache
                       /\ key \in DOMAIN cache_timestamps
                       /\ now - cache_timestamps[key] < cache_expiry
          IN  /\ (ret'.kind = "hit") <=> fresh
              /\ fresh => ret'.result = cache[key]]_vars

\* C1 witness: a stored result served at a later time than it was stored.
C1_Witness ==
    /\ ret.op = "invoke" /\ ret.kind = "hit"
    /\ ret.at - cache_timestamps[ret.key] > 0

\* C2: in the freshness window a successful fetch opens for a key, that fetch
\* is the only fetch made for the key, however many calls are made in it.
C2_OneFetchPerWindow ==
    \A key \in DOMAIN window : window[key].fetches = 1

\* C2 witness: a call served from the cache inside an open window, after the
\* time the window started.
C2_Witness ==
    /\ ret.op = "invoke" /\ ret.kind = "hit"
    /\ ret.key \in DOMAIN window
    /\ ret.at > window[ret.key].start
    /\ window[ret.key].fetches = 1

\* C3: once an invoke of a request has succeeded, every later invoke of the
\* same request inside the freshness window returns an equal result and calls
\* no fetch function.
C3_RepeatServedFromCache ==
    \A i, j \in 1..Len(trace) :
        (/\ i < j
         /\ trace[i].kind = "stored"
         /\ trace[j].key = trace[i].key
         /\ trace[j].at - trace[i].at < cache_expiry)
            => /\ trace[j].result = trace[i].result
               /\ ~trace[j].fetched

\* C3 witness: a successful invoke, and the same request again later in the
\* window.
C3_Witness ==
    /\ Len(trace) >= 2
    /\ trace[1].kind = "stored"
    /\ trace[2].key = trace[1].key
    /\ trace[2].at > trace[1].at
    /\ trace[2].at - trace[1].at < cache_expiry
    /\ trace[2].result = trace[1].result

\* C4: an invoke whose fetch fails leaves the results and the timestamps of
\* the cache exactly as they were and returns an error result.
C4_FailedFetchKeepsCache ==
    [][(InvokeStep /\ ret'.fetched /\ ret'.kind = "error") =>
          /\ cache' = cache
          /\ cache_timestamps' = cache_timestamps
          /\ ret'.result.kind = "error"]_vars

\* C4 witness: a failed fetch for a key that holds an entry (a stale one).
C4_Witness ==
    /\ ret.op = "invoke" /\ ret.kind = "error" /\ ret.fetched
    /\ cache_expiry > 0
    /\ ret.key \in DOMAIN cache
    /\ ret.at - cache_timestamps[ret.key] >= cache_expiry

\* C5: a failed fetch is answered with an error result, and no cache entry
\* ever holds an error result.
C5_NoErrorCached ==
    /\ \A key \in DOMAIN cache : cache[key].kind = "output"
    /\ (ret.op = "invoke" /\ ret.kind = "error") =>
           /\ ret.result.kind = "error"
           /\ ret.result.error # <<>>

\* C5 witness: a failed fetch returned an error result while the cache holds
\* entries.
C5_Witness ==
    /\ ret.op = "invoke" /\ ret.kind = "error" /\ ret.fetched
    /\ ret.result.kind = "error"
    /\ DOMAIN cache # {}

\* C6: with an expiry of 300 s and an empty cache, the AAPL quote at t=0
\* fetches; if it returned R1, the same request at t=100 returns R1 without a
\* fetch, and the same request at t=301 fetches again.
C6_Scenario ==
    (/\ cache_expiry = 300
     /\ Len(trace) >= 1
     /\ trace[1].key = QuoteAAPL /\ trace[1].at = 0)
        => /\ trace[1].fetched
           /\ (/\ trace[1].kind = "stored"
               /\ Len(trace) >= 2
               /\ trace[2].key = QuoteAAPL /\ trace[2].at = 100)
                  => /\ ~trace[2].fetched
                     /\ trace[2].result = trace[1].result
                     /\ (/\ Len(trace) >= 3
                         /\ trace[3].key = QuoteAAPL /\ trace[3].at = 301)
                            => trace[3].fetched

\* C6 witness: the three calls of the scenario have been made.
C6_Witness ==
    /\ cache_expiry = 300
    /\ Len(trace) = 3
    /\ \A i \in 1..3 : trace[i].key = QuoteAAPL
    /\ trace[1].at = 0 /\ trace[2].at = 100 /\ trace[3].at = 301
    /\ trace[1].kind = "stored" /\ trace[2].kind = "hit"
    /\ trace[3].fetched

\* C7: two requests with the same items, in whatever order, get the same
\* cache key.
C7_KeyOrderIndependent ==
    (k_keys # <<>> /\ Items(k_req[1]) = Items(k_req[2]))
        => k_keys[1] = k_keys[2]

\* C7 witness: two different insertion orders of the same items, with their
\* keys computed.
C7_Witness ==
    /\ k_keys # <<>>
    /\ Items(k_req[1]) = Items(k_req[2])
    /\ k_req[1] # k_req[2]
    /\ k_keys[1] = k_keys[2]

\* C8: two requests that differ in a parameter name or value get different
\* cache keys.
C8_KeyCollisionFree ==
    (k_keys # <<>> /\ Items(k_req[1]) # Items(k_req[2]))
        => k_keys[1] # k_keys[2]

\* C8 witness: two requests that differ only in the type of one value (the
\* string "5" and the integer 5), with different keys.
C8_Witness ==
    /\ k_keys # <<>>
    /\ k_req[1] = <<<<"ticker", StrVal("5")>>, <<"action", StrVal("AAPL")>>>>
    /\ k_req[2] = <<<<"action", StrVal("AAPL")>>, <<"ticker", IntVal(5)>>>>
    /\ k_keys[1] # k_keys[2]

\* The last successful fetch of each key in the trace.
LastStored(i) ==
    /\ trace[i].kind = "stored"
    /\ \A j \in (i + 1)..Len(trace) :
           ~(trace[j].kind = "stored" /\ trace[j].key = trace[i].key)

\* C9: after a successful fetch at time now the cache holds, for the key, the
\* result of that fetch stamped now; an earlier entry of the key is replaced,
\* so the cached keys are exactly the keys fetched successfully, once each.
C9_StoreReplaces ==
    /\ DOMAIN cache = {trace[i].key : i \in {j \in 1..Len(trace) : trace[j].kind = "stored"}}
    /\ DOMAIN cache_timestamps = DOMAIN cache
    /\ \A i \in 1..Len(trace) :
           LastStored(i) => /\ cache[trace[i].key] = trace[i].result
                            /\ cache_timestamps[trace[i].key] = trace[i].at

\* C9 witness: a key fetched successfully twice, the second fetch at a later
\* time and with another result than the first.
C9_Witness ==
    /\ Len(trace) >= 2
    /\ trace[1].kind = "stored" /\ trace[2].kind = "stored"
    /\ trace[2].key = trace[1].key
    /\ trace[2].at > trace[1].at
    /\ trace[2].result # trace[1].result
    /\ cache[trace[2].key] = trace[2].result

\* The state of a key: Absent, Fresh or Stale.
KeyState(c, timestamps, expiry, t, key) ==
    IF key \notin DOMAIN c THEN "Absent"
    ELSE IF t - TimestampOf(timestamps, key) < expiry THEN "Fresh" ELSE "Stale"

\* Every key of the requests.
AllKeys == {json_dumps(q) : q \in Requests}

\* A step of an invoke or of the clock (not a new configuration).
ServingStep == InvokeStep \/ now' # now

\* The moves of a key along the three arrows, with their causes.
ArrowMoves(key, before, after) ==
    \/ before = after
    \/ /\ before = "Absent" /\ after = "Fresh"
       /\ ret'.kind = "stored" /\ ret'.key = key
    \/ /\ before = "Fresh" /\ after = "Stale"
       /\ now' > now
    \/ /\ before = "Stale" /\ after = "Fresh"
       /\ ret'.kind = "stored" /\ ret'.key = key

\* C10 as stated, on an instance whose configured expiry is not negative: a
\* key only moves Absent -> Fresh, Fresh -> Stale and Stale -> Fresh, and the
\* set of cached keys never shrinks.
C10_Original ==
    [][(ServingStep /\ cache_expiry >= 0) =>
          /\ DOMAIN cache \subseteq DOMAIN cache'
          /\ \A key \in AllKeys :
                 ArrowMoves(key,
                     KeyState(cache, cache_timestamps, cache_expiry, now, key),
                     KeyState(cache', cache_timestamps', cache_expiry', now', key))]_vars

\* C10, amended: a key only moves Absent -> Fresh, Fresh -> Stale and
\* Stale -> Fresh, or, when the expiry is 0 or less, Absent -> Stale by a
\* successful fetch; the set of cached keys never shrinks.
C10_KeyStateMoves ==
    [][ServingStep =>
          /\ DOMAIN cache \subseteq DOMAIN cache'
          /\ \A key \in AllKeys :
                 LET before == KeyState(cache, cache_timestamps, cache_expiry, now, key)
                     after == KeyState(cache', cache_timestamps', cache_expiry', now', key)
                 IN  \/ ArrowMoves(key, before, after)
                     \/ /\ before = "Absent" /\ after = "Stale"
                        /\ cache_expiry <= 0
                        /\ ret'.kind = "stored" /\ ret'.key = key]_vars

\* C10 witness: after a successful fetch, on an instance whose entries do get
\* fresh, one key is fresh while another, fetched earlier, has gone stale and
\* is still in the cache.
C10_Witness ==
    /\ cache_expiry > 0
    /\ ret.op = "invoke" /\ ret.kind = "stored"
    /\ \E k1, k2 \in DOMAIN cache :
           /\ KeyState(cache, cache_timestamps, cache_expiry, now, k1) = "Stale"
           /\ KeyState(cache, cache_timestamps, cache_expiry, now, k2) = "Fresh"

\* C11: with a valid configuration, invoke never raises to its caller: for
\* every request it returns an output result or an error result.
C11_InvokeNeverRaises ==
    ret.op = "invoke" =>
        /\ ret.kind # "raised"
        /\ ret.result.kind \in {"output", "error"}

\* C12: set_config rejects a negative cache expiry: it fails with an error,
\* and no instance configured with such an expiry ever serves an invoke.
NegativeExpiry == self_config.has_cache_expiry /\ self_config.cache_expiry < 0

C12_BadExpiryRejected ==
    /\ ret.op = "set_config" /\ NegativeExpiry => ret.kind = "raised"
    /\ ret.op = "invoke" => ~NegativeExpiry

\* C13: a step of set_config leaves the cache empty, also on an instance that
\* held entries, and cache_expiry at the configured minutes times 60, 300
\* when the configuration has no cache_expiry; a step of invoke leaves
\* cache_expiry as it was.
C13_ConfigResetsCache ==
    [][/\ ret'.op = "set_config" =>
              /\ cache' = EmptyDict
              /\ cache_timestamps' = EmptyDict
              /\ cache_expiry' = IF self_config'.has_cache_expiry
                                 THEN self_config'.cache_expiry * 60
                                 ELSE 300
       /\ ret'.op = "invoke" => cache_expiry' = cache_expiry]_vars

\* A set_config that dropped an entry of the cache and set the expiry of a
\* configured minute.
C13_Witness ==
    /\ ret.op = "set_config"
    /\ ret.dropped > 0
    /\ cache = EmptyDict
    /\ self_config.has_cache_expiry
    /\ cache_expiry = 60

\* C14: a set_config whose logging level is no level of the logging module
\* fails with the ValueError of set_level, and a logger that had a level
\* keeps it.
InvalidLevelNames == {"verbose", "BASIC_FORMAT"}

C14_InvalidLevelFails ==
    [][(/\ ret'.op = "set_config"
        /\ self_config'.has_logging_level
        /\ self_config'.logging_level \in InvalidLevelNames)
          => /\ ret'.kind = "raised"
             /\ ret'.exc # <<>>
             /\ ret'.exc[1] = "ValueError"
             /\ logger.initialized => logger'.level = logger.level]_vars

\* A set_config that failed on an invalid level, the logger still at the
\* WARNING an earlier set_config gave it.
C14_Witness ==
    /\ ret.op = "set_config"
    /\ ret.kind = "raised"
    /\ self_config.logging_level = "verbose"
    /\ logger.level = 30

\* The invoke last served called the fetch function, and it raised.
FetchFailed == ret.op = "invoke" /\ ret.kind = "error" /\ ret.fetched

\* C15 as stated: when the fetch fails, the error the caller receives is the
\* fetch's own error, unmodified: the exception of the fetch function, or the
\* upstream error it was raised from, with nothing added.
C15_Original ==
    FetchFailed =>
        ret.result.error \in {ret.exc, <<UpstreamError>>, <<TickerError>>}

\* The symbol a request asks for: its "symbol", or without one its "ticker".
RequestSymbol(args) ==
    IF HasKey(args, "symbol") THEN ArgsGet(args, "symbol", NoneVal)
    ELSE ArgsGet(args, "ticker", NoneVal)

\* The words a fetch function puts before the error of its try block.
FetchPrefix ==
    [quote |-> "Error getting quote for",
     stock_history |-> "Error getting history for",
     options |-> "Error getting options for",
     info |-> "Error getting company info for",
     company_financials |-> "Error getting company financials for"]

\* The text of the exception that reaches the except clause of invoke when
\* upstream fails on a request (its status is "error": a read of the ticker
\* raises; or "no_ticker": yf.Ticker(symbol) raises), or <<>> where the
\* request makes no fetch or the text is not told here (visualize).
FailureText(args, up) ==
    LET action == ArgsGet(args, "action", NoneVal).s
        symbol == RequestSymbol(args)
        given == symbol.t = "str" /\ symbol.s # ""
        cause == IF up.status = "error" THEN UpstreamError ELSE TickerError
    IN  CASE up.status \notin {"error", "no_ticker"} -> <<>>
          [] action \in DOMAIN FetchPrefix /\ given ->
               IF up.status = "error"
               THEN <<FetchPrefix[action], symbol.s, UpstreamError>>
               ELSE <<TickerError>>
          [] action = "market_indices" ->
               <<"Error getting market indices data", cause>>
          [] action = "stock_news" ->
               <<"Error getting news for",
                 IF given THEN symbol.s ELSE "general market", cause>>
          [] action = "fear_greed" /\ up.status = "error" ->
               <<"Error getting Fear & Greed Index", UpstreamError>>
          [] OTHER -> <<>>

\* C15, amended: when the fetch fails, the caller receives an error result
\* whose text is "Failed to fetch data for action <action>" followed by the
\* whole text of the exception that left the fetch function.  Where a read of
\* the ticker failed inside the function's try block, that text is the
\* function's "Error getting ... for <symbol>" (the symbol of the request)
\* followed by the upstream error; where yf.Ticker(symbol) itself raised
\* before the try block of quote, stock_history, options, info or
\* company_financials, it is the upstream error alone.
C15_FetchErrorWrapped ==
    /\ FetchFailed =>
           /\ ret.exc # <<>>
           /\ ret.result.kind = "error"
           /\ ret.result.error =
                  <<"Failed to fetch data for action",
                    Text(ArgsGet(a_req, "action", NoneVal))>> \o ret.exc
    /\ (ret.op = "invoke" /\ HasKey(a_req, "action")
           /\ FailureText(a_req, a_up) # <<>>) =>
           /\ FetchFailed
           /\ ret.result.error =
                  <<"Failed to fetch data for action",
                    ArgsGet(a_req, "action", NoneVal).s>>
                      \o FailureText(a_req, a_up)

\* A quote whose upstream fetch failed.
C15_Witness ==
    /\ FetchFailed
    /\ a_up.status = "error"
    /\ ArgsGet(a_req, "action", NoneVal) = StrVal("quote")

\* The action of the request last served by the dispatch specification.
ActionOf(args) == ArgsGet(args, "action", NoneVal)

\* C16: one invoke calls the fetch function of its action at most once,
\* whether the fetch returns or raises.
C16_NoRetry ==
    ret.op = "invoke" =>
        /\ ret.calls <= 1
        /\ ret.fetched <=> ret.calls = 1

\* A stock history fetch that failed, after one call.
C16_Witness ==
    /\ FetchFailed
    /\ ret.calls = 1
    /\ a_up.status = "error"
    /\ ActionOf(a_req) = StrVal("stock_history")

\* C17: an invoke whose action is none of the nine of the descriptor returns
\* the error result that names the action, calls no fetch function and
\* leaves the cache and its timestamps as they were.
C17_InvalidActionRejected ==
    [][(/\ InvokeStep
        /\ ret'.key # <<>>
        /\ ret'.key[1][1] = "action"
        /\ ret'.key[1][2].text \notin ActionEnum)
          => /\ ret'.result.kind = "error"
             /\ ret'.result.error = <<"Invalid action", ret'.key[1][2].text>>
             /\ ~ret'.fetched
             /\ ret'.calls = 0
             /\ cache' = cache
             /\ cache_timestamps' = cache_timestamps]_vars

\* An invalid action answered on an instance whose cache holds an entry.
C17_Witness ==
    /\ ret.op = "invoke"
    /\ ret.result.error = <<"Invalid action", "bogus">>
    /\ cache # EmptyDict
    /\ ret.key \notin DOMAIN cache

\* The request with its "symbol" parameter renamed to "ticker".
AsTicker(args) ==
    [i \in 1..Len(args) |->
        IF args[i][1] = "symbol" THEN <<"ticker", args[i][2]>> ELSE args[i]]

\* C18: on an empty cache, a request that carries a value under "symbol" (and
\* no "ticker") returns the result that the same request with the value under
\* "ticker" returns from the same upstream answer; the result of a fetch
\* names the symbol queried.
C18_SymbolIsTicker ==
    (/\ ret.op = "invoke"
     /\ HasKey(a_req, "action")
     /\ HasKey(a_req, "symbol")
     /\ ~HasKey(a_req, "ticker"))
        => /\ ret.result = ReturnOnMiss(AsTicker(a_req), a_up)
           /\ ret.kind = "stored" /\ ret.result.call.symbol # NoneVal =>
                  ret.result.call.symbol = ArgsGet(a_req, "symbol", NoneVal)

\* A company info request by "symbol" that fetched that symbol.
C18_Witness ==
    /\ ret.op = "invoke"
    /\ ret.kind = "stored"
    /\ ActionOf(a_req) = StrVal("info")
    /\ HasKey(a_req, "symbol")
    /\ ~HasKey(a_req, "ticker")
    /\ ret.result.call.symbol = StrVal("AAPL")

\* The number of articles of a stock_news result.
Articles(result) == IF result.lists = <<>> THEN 0 ELSE result.lists[1].len

\* C19: a stock_news result never has more than 10 articles and never more
\* than the count requested (5 when the request has no count; none for a
\* count below 0).
C19_NewsAtMostCount ==
    ret.op = "invoke" /\ ActionOf(a_req) = StrVal("stock_news") =>
        /\ Articles(ret.result) <= 10
        /\ Articles(ret.result) <= Max(ArgsGet(a_req, "count", IntVal(5)).n, 0)

\* The invoke last served fetched the option chain of a ticker with
\* expirations, for the first expiration date or one the ticker has.
ChainFetched ==
    /\ ret.op = "invoke"
    /\ ret.kind = "stored"
    /\ ActionOf(a_req) = StrVal("options")
    /\ a_up.expirations # <<>>
    /\ ret.result.message = ""

\* C20: for a ticker with expirations (the expiration date left out or one of
\* them), option type 'call' gives optionType 'Calls' and one list, made of
\* the rows of the calls table; 'put' gives 'Puts' and one list, made of the
\* rows of the puts table; no option type gives a "calls" and a "puts" list;
\* every list has one entry per row of its table, 10 at most.
C20_OptionsByType ==
    ChainFetched =>
        LET option_type == ArgsGet(a_req, "optionType", NoneVal)
            result == ret.result
        IN  /\ option_type = StrVal("call") =>
                   /\ result.optionType = "Calls"
                   /\ result.lists =
                          <<[name |-> "data", table |-> "calls",
                             len |-> IF a_up.rows < 10 THEN a_up.rows ELSE 10]>>
            /\ option_type = StrVal("put") =>
                   /\ result.optionType = "Puts"
                   /\ result.lists =
                          <<[name |-> "data", table |-> "puts",
                             len |-> IF a_up.puts < 10 THEN a_up.puts ELSE 10]>>
            /\ option_type = NoneVal =>
                   result.lists =
                       <<[name |-> "calls", table |-> "calls",
                          len |-> IF a_up.rows < 10 THEN a_up.rows ELSE 10],
                         [name |-> "puts", table |-> "puts",
                          len |-> IF a_up.puts < 10 THEN a_up.puts ELSE 10]>>

\* The calls of a chain of more than 10 calls and fewer puts: 10 entries, all
\* of the calls table.
C20_Witness ==
    /\ ChainFetched
    /\ ArgsGet(a_req, "optionType", NoneVal) = StrVal("call")
    /\ a_up.rows > 10
    /\ a_up.puts < 10
    /\ ret.result.lists[1].len = 10

\* C21: _get_stock_history called with enhanced_format=True, the upstream
\* supplying a history, returns an output that echoes the symbol, the period
\* and the interval of the call, has one data row per row of the history and
\* has a "formatted_output" field.
C21_EnhancedHistory ==
    (/\ ret.op = "_get_stock_history"
     /\ ArgsGet(a_req, "enhanced_format", NoneVal) = BoolVal(TRUE)
     /\ a_up.status = "ok"
     /\ a_up.rows > 0)
        => /\ ret.kind = "returned"
           /\ ret.result.kind = "output"
           /\ ret.result.call.symbol = ArgsGet(a_req, "symbol", NoneVal)
           /\ ret.result.call.period = ArgsGet(a_req, "period", StrVal("1mo"))
           /\ ret.result.call.interval = ArgsGet(a_req, "interval", StrVal("1d"))
           /\ ret.result.lists =
                  <<[name |-> "data", table |-> "history", len |-> a_up.rows]>>
           /\ "formatted_output" \in history_output_fields

\* C22: a thread that observed a miss goes on by calling the fetch function,
\* whatever the other thread does: nothing holds back or joins the fetch of
\* a request identical to one in flight.
C22_NoDeduplication ==
    [][\A t \in Threads :
          threads.run[t].pc = "fetch" /\ threads'.run[t].pc # "fetch" =>
              \/ threads'.run[t].fetches = threads.run[t].fetches + 1
              \/ threads'.run[t].kind = "error" /\ threads'.run[t].fetches = 0]_vars

\* Both threads missed on the quote of AAPL, both fetched and stored: two
\* fetches for the key inside one freshness window.
C22_Witness ==
    /\ \A t \in Threads :
           /\ threads.run[t].kind = "stored"
           /\ threads.run[t].key = QuoteAAPL
           /\ threads.run[t].fetches = 1
    /\ window[QuoteAAPL].fetches = 2

\* The statement and the period a company_financials request asks for.
StatementOf(args) ==
    IF HasKey(args, "statement") THEN ArgsGet(args, "statement", NoneVal)
    ELSE StrVal("income")

PeriodOf(args) ==
    IF HasKey(args, "period") THEN ArgsGet(args, "period", NoneVal)
    ELSE StrVal("annual")

\* C23: a company_financials request for a symbol whose statement is none of
\* income, balance, cash, all, or whose period is neither annual nor
\* quarterly, returns an error result and leaves the cache empty; a request
\* without "statement" is served as income and one without "period" as
\* annual.
C23_FinancialsValidated ==
    (/\ ret.op = "invoke"
     /\ ActionOf(a_req) = StrVal("company_financials")
     /\ Truthy(ResolveSymbol(a_req)))
        => LET valid ==
                  /\ StatementOf(a_req) \in
                         {StrVal(x) : x \in {"income", "balance", "cash", "all"}}
                  /\ PeriodOf(a_req) \in {StrVal("annual"), StrVal("quarterly")}
           IN  /\ ~valid =>
                      /\ ret.result.kind = "error"
                      /\ cache = EmptyDict
                      /\ cache_timestamps = EmptyDict
               /\ valid /\ a_up.status \notin {"error", "no_ticker"} =>
                      /\ ret.kind = "stored"
                      /\ ret.result.kind = "output"
                      /\ ret.result.message = "" =>
                             /\ ret.result.call.statement = StatementOf(a_req)
                             /\ ret.result.call.period = PeriodOf(a_req)

\* A request for the period "1y" of the descriptor's enum and no statement,
\* refused after the company info was read from an upstream that answered.
C23_Witness ==
    /\ ret.op = "invoke"
    /\ ActionOf(a_req) = StrVal("company_financials")
    /\ ~HasKey(a_req, "statement")
    /\ PeriodOf(a_req) = StrVal("1y")
    /\ a_up.status = "ok"
    /\ ret.fetched
    /\ ret.result.kind = "error"
    /\ cache = EmptyDict

\* The actions that require a symbol, and the three that do not.
SymbolActions == {"quote", "stock_history", "options", "info", "company_financials"}

OpenActions == {"stock_news", "market_indices", "fear_greed"}

NonEmptyText(v) == v.t = "str" /\ v.s # ""

\* C24: on an empty cache, a request of quote, stock_history, options, info or
\* company_financials whose "symbol" is not a non-empty text and, where it
\* has no "symbol", whose "ticker" is not one either, returns the error
\* result of the missing parameter, calls no fetch function and leaves the
\* cache empty; stock_news, market_indices and fear_greed call their fetch
\* function with or without a symbol.
C24_SymbolRequired ==
    (ret.op = "invoke" /\ HasKey(a_req, "action")) =>
        LET action == ActionOf(a_req).s
            given == IF HasKey(a_req, "symbol")
                     THEN NonEmptyText(ArgsGet(a_req, "symbol", NoneVal))
                     ELSE /\ HasKey(a_req, "ticker")
                          /\ NonEmptyText(ArgsGet(a_req, "ticker", NoneVal))
        IN  /\ action \in SymbolActions /\ ~given =>
                   /\ ret.result.kind = "error"
                   /\ ret.result.error =
                          <<"Failed to fetch data for action", action,
                            "Missing required parameter: symbol or ticker">>
                   /\ ~ret.fetched
                   /\ ret.calls = 0
                   /\ cache = EmptyDict
                   /\ cache_timestamps = EmptyDict
            /\ action \in SymbolActions /\ given => ret.fetched
            /\ action \in OpenActions => ret.fetched /\ ret.calls = 1

\* An options request whose "symbol" is empty, refused although it carries a
\* ticker.
C24_Witness ==
    /\ ret.op = "invoke"
    /\ ActionOf(a_req) = StrVal("options")
    /\ ArgsGet(a_req, "symbol", NoneVal) = StrVal("")
    /\ ArgsGet(a_req, "ticker", NoneVal) = StrVal("AAPL")
    /\ ret.result.kind = "error"
    /\ ~ret.fetched
    /\ cache = EmptyDict

\* The position in the trace of the invoke that stored the entry of a key
\* last, or 0.
LastStore(tr, key) ==
    LET stores == {i \in 1..Len(tr) : tr[i].key = key /\ tr[i].kind = "stored"}
    IN  IF stores = {} THEN 0 ELSE CHOOSE i \in stores : \A j \in stores : j <= i

\* C25: an invoke served from the cache leaves every result and every
\* timestamp as it was, and the result it returns is the one stored last for
\* its key, by an invoke made less than cache_expiry before, whatever hits
\* were served since.
C25_HitsDoNotExtend ==
    [][(InvokeStep /\ ret'.kind = "hit")
          => /\ cache' = cache
             /\ cache_timestamps' = cache_timestamps
             /\ LET i == LastStore(trace, ret'.key)
                IN  /\ i # 0
                    /\ ret'.result = trace[i].result
                    /\ ret'.at < trace[i].at + cache_expiry]_vars

\* A result stored at 0 and served twice after, at 100 and at 200, with its
\* timestamp still 0; expiry 300.
C25_Witness ==
    /\ cache_expiry = 300
    /\ Len(trace) = 3
    /\ trace[1].kind = "stored" /\ trace[1].at = 0
    /\ trace[2].kind = "hit" /\ trace[2].at = 100
    /\ trace[3].kind = "hit" /\ trace[3].at = 200
    /\ trace[2].key = trace[1].key /\ trace[3].key = trace[1].key
    /\ cache_timestamps[trace[1].key] = 0

\* C26: once configured, and after every invoke that returned (a hit, a
\* stored fetch, a failed fetch, an invalid action), the keys of cache are
\* the keys of cache_timestamps.
C26_SameKeys ==
    (configured /\ ret.op \in {"set_config", "invoke"}) =>
        DOMAIN cache = DOMAIN cache_timestamps

\* A failed fetch answered by an instance that holds two entries, each with
\* its timestamp.
C26_Witness ==
    /\ ret.op = "invoke"
    /\ ret.result.kind = "error"
    /\ ret.fetched
    /\ Cardinality(DOMAIN cache) = 2
    /\ DOMAIN cache_timestamps = DOMAIN cache

\* What a stock_history request asks of upstream: the symbol, the period
\* and the interval, with the alias and the defaults applied.
Resolved(args) ==
    <<IF HasKey(args, "symbol") THEN ArgsGet(args, "symbol", NoneVal)
      ELSE ArgsGet(args, "ticker", NoneVal),
      IF HasKey(args, "period") THEN ArgsGet(args, "period", NoneVal)
      ELSE StrVal("1mo"),
      IF HasKey(args, "interval") THEN ArgsGet(args, "interval", NoneVal)
      ELSE StrVal("1d")>>

\* C27: two requests with different items that ask the same of upstream
\* (the symbol as "symbol" or as "ticker", the default period or interval
\* given or left out) have different cache keys: served one after the other
\* on an empty cache, the second is no hit and calls the fetch function
\* (with the arguments of the first, as the outputs of two fetches that found
\* data show), and when both are stored the cache holds an entry for each.
C27_KeyFromRawArguments ==
    (/\ Len(trace) = 2
     /\ Items(k_req[1]) # Items(k_req[2])
     /\ Resolved(k_req[1]) = Resolved(k_req[2]))
        => /\ trace[1].key # trace[2].key
           /\ trace[2].kind # "hit"
           /\ trace[2].fetched
           /\ (trace[1].kind = "stored" /\ trace[2].kind = "stored") =>
                  /\ (trace[1].result.message = "" /\ trace[2].result.message = "")
                         => trace[1].result.call = trace[2].result.call
                  /\ DOMAIN cache = {trace[1].key, trace[2].key}
                  /\ cache[trace[1].key] = trace[1].result
                  /\ cache[trace[2].key] = trace[2].result

\* The history of AAPL asked by "symbol" without a period and then by
\* "ticker" with the period "1mo": two fetches and two entries.
C27_Witness ==
    /\ Len(trace) = 2
    /\ k_req[1] = <<<<"action", StrVal("stock_history")>>,
                    <<"symbol", StrVal("AAPL")>>>>
    /\ k_req[2] = <<<<"action", StrVal("stock_history")>>,
                    <<"ticker", StrVal("AAPL")>>, <<"period", StrVal("1mo")>>>>
    /\ trace[1].kind = "stored" /\ trace[2].kind = "stored"
    /\ trace[1].result.message = "" /\ trace[2].result.message = ""
    /\ trace[1].result.call = trace[2].result.call
    /\ Cardinality(DOMAIN cache) = 2

\* The request names a symbol: a non-empty "symbol", or no "symbol" and a
\* non-empty "ticker".
SymbolGiven(args) ==
    IF HasKey(args, "symbol") THEN NonEmptyText(ArgsGet(args, "symbol", NoneVal))
    ELSE HasKey(args, "ticker") /\ NonEmptyText(ArgsGet(args, "ticker", NoneVal))

\* The fetch of the request ends without data on this upstream answer: the
\* message of its output (empty for a statement that could not be
\* processed), or "none" where the fetch finds data, fails or is not made.
NoDataMessage(args, up) ==
    LET action == ActionOf(args)
        date == ArgsGet(args, "expirationDate", NoneVal)
    IN  CASE up.status \in {"error", "no_ticker"} -> "none"
          [] action = StrVal("stock_history") /\ SymbolGiven(args)
                /\ (up.status = "empty" \/ up.rows = 0) ->
               "No historical data available for this period and interval"
          [] action = StrVal("options") /\ SymbolGiven(args)
                /\ up.expirations = <<>> ->
               "No options data available for this ticker"
          [] action = StrVal("options") /\ SymbolGiven(args)
                /\ NonEmptyText(date)
                /\ \A i \in 1..Len(up.expirations) : up.expirations[i] # date.s ->
               "Expiration date not available"
          [] action = StrVal("stock_news") /\ up.rows = 0 ->
               "No news articles available"
          [] action = StrVal("company_financials") /\ SymbolGiven(args)
                /\ StatementOf(args) \in {StrVal("income"), StrVal("all")}
                /\ PeriodOf(args) \in {StrVal("annual"), StrVal("quarterly")} ->
               CASE up.status = "empty" -> "No financial statement data available"
                 [] up.status = "unprocessable" -> ""
                 [] OTHER -> "none"
          [] OTHER -> "none"

\* C28: a fetch that ends without data (an empty history, no options for the
\* ticker, an expiration date the ticker does not have, no news, a statement
\* whose processing failed inside _process_financial_statement) returns an
\* output result without data, and invoke stores it with the time of the
\* call: a lookup finds it fresh until cache_expiry after the call, not at
\* cache_expiry after it.
C28_NoDataIsCached ==
    (ret.op = "invoke" /\ HasKey(a_req, "action")
        /\ NoDataMessage(a_req, a_up) # "none")
        => /\ ret.kind = "stored"
           /\ ret.fetched
           /\ ret.result.kind = "output"
           /\ ret.result.data = 0
           /\ ret.result.message = NoDataMessage(a_req, a_up)
           /\ ret.key \in DOMAIN cache
           /\ cache[ret.key] = ret.result
           /\ ret.key \in DOMAIN cache_timestamps
           /\ cache_timestamps[ret.key] = ret.at
           /\ CacheHit(cache, cache_timestamps, cache_expiry, ret.key,
                       ret.at + cache_expiry - 1)
           /\ ~CacheHit(cache, cache_timestamps, cache_expiry, ret.key,
                        ret.at + cache_expiry)

\* The statements of AAPL could not be processed: the output without data is
\* in the cache.
C28_Witness ==
    /\ ret.op = "invoke"
    /\ ActionOf(a_req) = StrVal("company_financials")
    /\ a_up.status = "unprocessable"
    /\ ret.kind = "stored"
    /\ ret.result.data = 0 /\ ret.result.message = ""
    /\ cache[ret.key] = ret.result

\* No thread is between the store of a result for the key and the store of
\* its timestamp.
Settled(key) ==
    \A t \in Threads :
        ~(threads.run[t].pc = "store_timestamp" /\ threads.run[t].key = key)

\* C29: whatever the interleaving of two invokes, the timestamp of a key is
\* the time read by the request whose result the cache holds for it, and a
\* lookup at the present time serves that result only if the request that
\* fetched it read the clock less than cache_expiry ago.
C29_ResultAndTimestampPaired ==
    \A key \in DOMAIN cache :
        Settled(key) =>
            /\ key \in DOMAIN cache_timestamps
            /\ cache_timestamps[key] = threads.result_from[key]
            /\ CacheHit(cache, cache_timestamps, cache_expiry, key, now) =>
                   now - threads.result_from[key] < cache_expiry

====
